---- MODULE Spec2Model ----
(***************************************************************************)
(* Shape-area calculators of the SOLID tutorial: the OCP-compliant         *)
(* calculator (Square, Circle, Triangle), the SRP-compliant calculator     *)
(* with its Outputter, the SRP-violating calculator (instanceof loop and   *)
(* output()) and the OCP-violating calculator (instanceof reduce).         *)
(*                                                                         *)
(* A TypeScript `number` is an IEEE-754 binary float.  It is modelled by a *)
(* float of the same shape at a smaller size: a finite value is an integer *)
(* count of units of 2^-FracBits carrying at most MantBits significant     *)
(* bits, every operation rounds its exact result to nearest, ties to even, *)
(* results above MaxFinite become Infinity, and NaN and undefined are      *)
(* values of their own.  Signed zero is not distinguished (String(-0) and  *)
(* JSON.stringify(-0) both give "0"); dimensions are finite numbers, NaN   *)
(* and Infinity arise from the arithmetic only.                            *)
(***************************************************************************)
EXTENDS Integers, Sequences, FiniteSets, TLC

\* ------------------------------------------------------------------ bounds
MaxLen   == 3   \* longest shapes array
MantBits == 4   \* significant bits of a number
FracBits == 2   \* a unit is 2^-FracBits
MaxShift == 4   \* largest exponent step above the unit grid

\* ------------------------------------------------------- the number type
RECURSIVE Pow(_, _)
Pow(b, e) == IF e = 0 THEN 1 ELSE b * Pow(b, e - 1)

RECURSIVE BitLen(_)
BitLen(n) == IF n = 0 THEN 0 ELSE 1 + BitLen(n \div 2)

Abs(n) == IF n < 0 THEN -n ELSE n

Scale     == Pow(2, FracBits)                          \* units in 1.0
MaxFinite == (Pow(2, MantBits) - 1) * Pow(2, MaxShift) \* largest finite value, in units

Num(v)    == [k |-> "num", v |-> v]
NaN       == [k |-> "nan", v |-> 0]
PosInf    == [k |-> "inf", v |-> 1]
NegInf    == [k |-> "inf", v |-> -1]
Undefined == [k |-> "undef", v |-> 0]
Null      == [k |-> "null", v |-> 0]
Zero      == Num(0)

IsFinite(x) == x.k = "num"

\* spacing of the representable values around magnitude n (n in units)
Ulp(n) == Pow(2, IF BitLen(n) > MantBits THEN BitLen(n) - MantBits ELSE 0)

IsRep(v) == Abs(v) <= MaxFinite /\ Abs(v) % Ulp(Abs(v)) = 0

\* the number nearest to num/den units (den > 0), ties to even
RoundRat(num, den) ==
  LET a  == Abs(num)
      q  == Ulp(a \div den)
      D  == den * q
      m  == a \div D
      r  == a % D
      up == (2 * r > D) \/ (2 * r = D /\ m % 2 = 1)
      mm == (IF up THEN m + 1 ELSE m) * q
  IN  IF mm > MaxFinite
        THEN (IF num < 0 THEN NegInf ELSE PosInf)
        ELSE Num(IF num < 0 THEN -mm ELSE mm)

\* ToNumber on the values that reach an arithmetic operator
ToNumber(x) == IF x.k = "undef" THEN NaN ELSE x

\* x + y
FAdd(x0, y0) ==
  LET x == ToNumber(x0)
      y == ToNumber(y0)
  IN  IF x.k = "nan" \/ y.k = "nan" THEN NaN
      ELSE IF x.k = "inf" /\ y.k = "inf" THEN (IF x.v = y.v THEN x ELSE NaN)
      ELSE IF x.k = "inf" THEN x
      ELSE IF y.k = "inf" THEN y
      ELSE RoundRat(x.v + y.v, 1)

Sign(n) == IF n < 0 THEN -1 ELSE IF n > 0 THEN 1 ELSE 0

\* x * y
FMul(x0, y0) ==
  LET x == ToNumber(x0)
      y == ToNumber(y0)
  IN  IF x.k = "nan" \/ y.k = "nan" THEN NaN
      ELSE IF x.k = "inf" \/ y.k = "inf"
        THEN (IF Sign(x.v) * Sign(y.v) = 0 THEN NaN
              ELSE IF Sign(x.v) * Sign(y.v) > 0 THEN PosInf ELSE NegInf)
      ELSE RoundRat(x.v * y.v, Scale)

\* Math.PI (the number nearest to pi; 355/113 agrees with pi to 7 digits) and
\* the literal 0.5
PI   == RoundRat(355 * Scale, 113)
Half == RoundRat(Scale, 2)

\* ------------------------------------------------------------- strings
\* A string is the sequence of its characters.
DigitChar == <<"0", "1", "2", "3", "4", "5", "6", "7", "8", "9">>

RECURSIVE IntToChars(_)
IntToChars(n) ==
  IF n < 10 THEN <<DigitChar[n + 1]>>
  ELSE IntToChars(n \div 10) \o <<DigitChar[(n % 10) + 1]>>

RECURSIVE Zeros(_)
Zeros(n) == IF n <= 0 THEN <<>> ELSE <<"0">> \o Zeros(n - 1)

MaxK == MantBits                                  \* digits that always suffice
MaxN == Len(IntToChars(MaxFinite \div Scale)) + 1 \* largest decimal exponent

\* the number denoted by the k-digit decimal s * 10^(n-k)
DecimalValue(s, n, k) ==
  IF n >= k THEN RoundRat(s * Pow(10, n - k) * Scale, 1)
            ELSE RoundRat(s * Scale, Pow(10, k - n))

\* the k-digit decimals s * 10^(n-k) whose Number value is v (v > 0, in units)
Decimals(v, k) ==
  { c \in [s : 0 .. Pow(10, k) - 1, n : 0 .. MaxN] :
      LET s0 == IF c.n >= k THEN v \div (Scale * Pow(10, c.n - k))
                            ELSE (v * Pow(10, k - c.n)) \div Scale
      IN  /\ c.s \in {s0, s0 + 1}
          /\ c.s >= Pow(10, k - 1)
          /\ DecimalValue(c.s, c.n, k) = Num(v) }

\* Number::toString for a finite v > 0: the fewest digits that denote v, the
\* closest such decimal, the even one on a tie.  (With few significant bits
\* the shortest decimal is short: "0.2" denotes the number 0.25 as "0.1"
\* denotes 0.1000000000000000055... in binary64.)
ShortestDecimal(v) ==
  LET k    == CHOOSE j \in 1 .. MaxK :
                /\ Decimals(v, j) # {}
                /\ \A i \in 1 .. (j - 1) : Decimals(v, i) = {}
      cs   == Decimals(v, k)
      d(c) == Abs(c.s * Pow(10, c.n) * Scale - v * Pow(10, k))
      best == { c \in cs : \A o \in cs : d(c) <= d(o) }
      c    == IF \E b \in best : b.s % 2 = 0
                THEN CHOOSE b \in best : b.s % 2 = 0
                ELSE CHOOSE b \in best : TRUE
  IN  [s |-> c.s, n |-> c.n, k |-> k]

DecimalChars(c) ==
  LET ds == IntToChars(c.s)
  IN  IF c.n >= c.k THEN ds \o Zeros(c.n - c.k)
      ELSE IF c.n > 0 THEN SubSeq(ds, 1, c.n) \o <<".">> \o SubSeq(ds, c.n + 1, c.k)
      ELSE <<"0", ".">> \o Zeros(-c.n) \o ds

Representable == { v \in 1 .. MaxFinite : IsRep(v) }

PositiveToString == [v \in Representable |-> DecimalChars(ShortestDecimal(v))]

\* ToString(x) of a number, as `${x}` and JSON.stringify apply it
NumberToString(x) ==
  IF x.k = "undef" THEN <<"u", "n", "d", "e", "f", "i", "n", "e", "d">>
  ELSE IF x.k = "nan" THEN <<"N", "a", "N">>
  ELSE IF x.k = "inf"
    THEN (IF x.v < 0 THEN <<"-">> ELSE <<>>) \o <<"I", "n", "f", "i", "n", "i", "t", "y">>
  ELSE IF x.v = 0 THEN <<"0">>
  ELSE IF x.v < 0 THEN <<"-">> \o PositiveToString[-x.v]
  ELSE PositiveToString[x.v]

\* the sum serialized as a string: { totalArea: String(x) }
JsonStringifyQuoted(x) ==
  <<"{", "\"", "t", "o", "t", "a", "l", "A", "r", "e", "a", "\"", ":">>
    \o <<"\"">> \o NumberToString(x) \o <<"\"">> \o <<"}">>

\* JSON.stringify({ totalArea: x })
JsonStringify(x) ==
  IF x.k = "undef" THEN <<"{", "}">>
  ELSE <<"{", "\"", "t", "o", "t", "a", "l", "A", "r", "e", "a", "\"", ":">>
       \o (IF IsFinite(x) THEN NumberToString(x) ELSE <<"n", "u", "l", "l">>)
       \o <<"}">>

\* "Sum of the areas of provided shapes: "
Prefix == <<"S", "u", "m", " ", "o", "f", " ", "t", "h", "e", " ",
            "a", "r", "e", "a", "s", " ", "o", "f", " ",
            "p", "r", "o", "v", "i", "d", "e", "d", " ",
            "s", "h", "a", "p", "e", "s", ":", " ">>

\* the template without the space after the colon
TemplateNoSpace(x) == SubSeq(Prefix, 1, Len(Prefix) - 1) \o NumberToString(x)

\* `Sum of the areas of provided shapes: ${x}`
Template(x) == Prefix \o NumberToString(x)

\* ---------------------------------------------------------------- shapes
\* dimensions the shapes are built with, in units: small, zero, negative, and
\* large enough for an area to overflow
SquareDims      == {2, 8, 32}
CircleDims      == {2}
TriangleBases   == {4, -4}
TriangleHeights == {0, 8}

\* OCP-compliant program: Square(width), Circle(radius), Triangle(base, height)
OcpSquare(w)      == [cls |-> "Square", width |-> Num(w)]
OcpCircle(r)      == [cls |-> "Circle", radius |-> Num(r)]
OcpTriangle(b, h) == [cls |-> "Triangle", base |-> Num(b), height |-> Num(h)]

\* SRP programs (compliant and violating): Circle(radius), Square(length)
SrpCircle(r) == [cls |-> "Circle", radius |-> Num(r)]
SrpSquare(l) == [cls |-> "Square", length |-> Num(l)]

\* an element of the OCP-violating shapes: any[] that is no Square and no Circle
Other == [cls |-> "Other"]

OcpSquareArea(shape)   == FMul(shape.width, shape.width)
OcpCircleArea(shape)   == FMul(FMul(PI, shape.radius), shape.radius)
\* 0.5 forgotten
OcpTriangleAreaNoHalf(shape) == FMul(shape.base, shape.height)
\* `0.5 * base - height`
OcpTriangleAreaMinus(shape) == FAdd(FMul(Half, shape.base), FMul(Num(-Scale), shape.height))
OcpTriangleArea(shape) == FMul(FMul(Half, shape.base), shape.height)

SrpCircleArea(shape) == FMul(FMul(PI, shape.radius), shape.radius)
SrpSquareArea(shape) == FMul(shape.length, shape.length)

\* shape.area(), dispatched on the class of the object
OcpArea(shape) ==
  CASE shape.cls = "Square"   -> OcpSquareArea(shape)
    [] shape.cls = "Circle"   -> OcpCircleArea(shape)
    [] shape.cls = "Triangle" -> OcpTriangleArea(shape)

SrpArea(shape) ==
  CASE shape.cls = "Circle" -> SrpCircleArea(shape)
    [] shape.cls = "Square" -> SrpSquareArea(shape)

\* the callback (acc, shape) => acc + shape.area() of the OCP-compliant sum()
OcpReducer(acc, shape) == FAdd(acc, OcpArea(shape))

\* this.shapes.reduce(callback, acc) of the OCP-compliant sum()
RECURSIVE OcpReduce(_, _)
OcpReduce(acc, arr) ==
  IF arr = <<>> THEN acc ELSE OcpReduce(OcpReducer(acc, Head(arr)), Tail(arr))

\* a sum() that starts at the second element
OcpSumSkipsFirst(arr) == OcpReduce(Zero, IF arr = <<>> THEN arr ELSE Tail(arr))

\* AreaCalculator.sum() of the OCP-compliant program
OcpSum(arr) == OcpReduce(Zero, arr)

\* a callback that forgets its accumulator
SrpReducerDropsAcc(acc, shape) == SrpArea(shape)

\* the callback (acc, shape) => acc + shape.area() of the SRP-compliant sum()
SrpReducer(acc, shape) == FAdd(acc, SrpArea(shape))

\* this.shapes.reduce(callback, acc) of the SRP-compliant sum()
RECURSIVE SrpReduce(_, _)
SrpReduce(acc, arr) ==
  IF arr = <<>> THEN acc ELSE SrpReduce(SrpReducer(acc, Head(arr)), Tail(arr))

\* AreaCalculator.sum() of the SRP-compliant program
SrpSum(arr) == SrpReduce(Zero, arr)

\* the Square branch adds the length, not its square
SrpViolationBodyNoSquare(sum, shape) ==
  LET s1 == IF shape.cls = "Circle"
              THEN FAdd(sum, FMul(FMul(PI, shape.radius), shape.radius))
              ELSE sum
  IN  IF shape.cls = "Square" THEN FAdd(s1, shape.length) ELSE s1

\* body of the for-of loop of the SRP-violating sum()
SrpViolationBody(sum, shape) ==
  LET s1 == IF shape.cls = "Circle"
              THEN FAdd(sum, FMul(FMul(PI, shape.radius), shape.radius))
              ELSE sum
  IN  IF shape.cls = "Square"
        THEN FAdd(s1, FMul(shape.length, shape.length))
        ELSE s1

\* AreaCalculator.sum() of the SRP-violating program
RECURSIVE SrpViolationLoop(_, _)
SrpViolationLoop(sum, arr) ==
  IF arr = <<>> THEN sum
  ELSE SrpViolationLoop(SrpViolationBody(sum, Head(arr)), Tail(arr))

SrpViolationSum(arr) == SrpViolationLoop(Zero, arr)

\* the reducer of the OCP-violating sum(): no return after the two ifs
OcpViolationReducer(acc, shape) ==
  IF shape.cls = "Square"
    THEN FAdd(acc, FMul(shape.width, shape.width))
  ELSE IF shape.cls = "Circle"
    THEN FAdd(acc, FMul(FMul(PI, shape.radius), shape.radius))
  ELSE Undefined

\* this.shapes.reduce(callback, acc) of the OCP-violating sum()
RECURSIVE OcpViolationReduce(_, _)
OcpViolationReduce(acc, arr) ==
  IF arr = <<>> THEN acc
  ELSE OcpViolationReduce(OcpViolationReducer(acc, Head(arr)), Tail(arr))

\* AreaCalculator.sum() of the OCP-violating program
OcpViolationSum(arr) == OcpViolationReduce(Zero, arr)

\* ----------------------------------------------------------------- state
VARIABLES
  prog,     \* which program runs: "ocp", "srp", "srpViolation", "ocpViolation"
  shapes,   \* the shapes array the AreaCalculator holds
  last,     \* the latest call: operation, return value, element, and whether
            \* it repeats the call before it after a change (again)
  prev,     \* the Outputter call made right before the latest call, when
            \* nothing changed in between
  changed   \* the caller has changed shapes or a dimension since the latest call

vars == <<prog, shapes, last, prev, changed>>

Progs == {"ocp", "srp", "srpViolation", "ocpViolation"}

\* the values a caller can put into the array of each program
Universe(p) ==
  CASE p = "ocp" ->
         {OcpSquare(w) : w \in SquareDims} \cup {OcpCircle(r) : r \in CircleDims}
           \cup {OcpTriangle(b, h) : b \in TriangleBases, h \in TriangleHeights}
    [] p = "ocpViolation" ->
         {OcpSquare(w) : w \in SquareDims} \cup {OcpCircle(r) : r \in CircleDims}
           \cup {Other}
    [] OTHER ->
         {SrpCircle(r) : r \in CircleDims} \cup {SrpSquare(l) : l \in SquareDims}

Arrays(S) == UNION { [1 .. n -> S] : n \in 0 .. MaxLen }

NoCall == [op |-> "none", ret |-> Undefined, idx |-> 0, again |-> FALSE]

\* new AreaCalculator(shapes) [and new Outputter(areaCalculator)]
Init ==
  /\ prog \in Progs
  /\ shapes \in Arrays(Universe(prog))
  /\ last = NoCall
  /\ prev = NoCall
  /\ changed = FALSE

\* the record of a call that returns ret
Call(op, ret, i) == [op |-> op, ret |-> ret, idx |-> i, again |-> changed /\ last.op = op]

\* the Outputter call that the new call follows directly, if any
Before ==
  IF ~changed /\ last.op \in {"toText", "toJson"}
    THEN [last EXCEPT !.again = FALSE]
    ELSE NoCall

\* sum() of the AreaCalculator class of the running program
CalculatorSum(arr) ==
  CASE prog = "ocp"          -> OcpSum(arr)
    [] prog = "srp"          -> SrpSum(arr)
    [] prog = "srpViolation" -> SrpViolationSum(arr)
    [] prog = "ocpViolation" -> OcpViolationSum(arr)

\* shapes[i].area()
Area ==
  /\ prog \in {"ocp", "srp"}
  /\ \E i \in 1 .. Len(shapes) :
       last' = Call("area", IF prog = "ocp" THEN OcpArea(shapes[i]) ELSE SrpArea(shapes[i]), i)
  /\ prev' = Before
  /\ changed' = FALSE
  /\ UNCHANGED <<prog, shapes>>

\* a sum() that consumes the array it adds up
SumDraining ==
  /\ last' = Call("sum", CalculatorSum(shapes), 0)
  /\ prev' = Before
  /\ changed' = FALSE
  /\ shapes' = <<>>
  /\ UNCHANGED prog

\* areaCalculator.sum()
Sum ==
  /\ last' = Call("sum", CalculatorSum(shapes), 0)
  /\ prev' = Before
  /\ changed' = FALSE
  /\ UNCHANGED <<prog, shapes>>

\* a toText() that keeps the string of its previous call
ToTextCached ==
  /\ prog = "srp"
  /\ last' = Call("toText",
                  IF last.op = "toText" THEN last.ret ELSE Template(SrpSum(shapes)), 0)
  /\ prev' = Before
  /\ changed' = FALSE
  /\ UNCHANGED <<prog, shapes>>

\* outputter.toText()
ToText ==
  /\ prog = "srp"
  /\ last' = Call("toText", Template(SrpSum(shapes)), 0)
  /\ prev' = Before
  /\ changed' = FALSE
  /\ UNCHANGED <<prog, shapes>>

\* outputter.toJson()
ToJson ==
  /\ prog = "srp"
  /\ last' = Call("toJson", JsonStringify(SrpSum(shapes)), 0)
  /\ prev' = Before
  /\ changed' = FALSE
  /\ UNCHANGED <<prog, shapes>>

\* areaCalculator.output() of the SRP-violating program
Output ==
  /\ prog = "srpViolation"
  /\ last' = Call("output", Template(SrpViolationSum(shapes)), 0)
  /\ prev' = Before
  /\ changed' = FALSE
  /\ UNCHANGED <<prog, shapes>>

\* ---- what a caller can do to the public fields between two calls (the model
\* follows one change between two calls; every array is also an initial one)

\* areaCalculator.shapes.push(shape)
Push ==
  /\ ~changed
  /\ Len(shapes) < MaxLen
  /\ \E shape \in Universe(prog) : shapes' = Append(shapes, shape)
  /\ changed' = TRUE
  /\ prev' = NoCall
  /\ UNCHANGED <<prog, last>>

\* areaCalculator.shapes.pop()
Pop ==
  /\ ~changed
  /\ shapes # <<>>
  /\ shapes' = SubSeq(shapes, 1, Len(shapes) - 1)
  /\ changed' = TRUE
  /\ prev' = NoCall
  /\ UNCHANGED <<prog, last>>

\* shapes[i].width = d, and the like for the other public dimensions
SetDimension ==
  /\ ~changed
  /\ \E i \in 1 .. Len(shapes) : \E shape \in Universe(prog) :
       /\ shape.cls = shapes[i].cls
       /\ shape # shapes[i]
       /\ IF shape.cls = "Triangle"
            THEN shape.base = shapes[i].base \/ shape.height = shapes[i].height
            ELSE TRUE
       /\ shapes' = [shapes EXCEPT ![i] = shape]
  /\ changed' = TRUE
  /\ prev' = NoCall
  /\ UNCHANGED <<prog, last>>

Next ==
  \/ Area
  \/ Sum
  \/ ToText
  \/ ToJson
  \/ Output
  \/ Push
  \/ Pop
  \/ SetDimension

Spec == Init /\ [][Next]_vars

\* ===================================================== reading the outputs
\* What a reader of the returned strings recovers from them.

IsDigit(c) == \E d \in 1 .. 10 : DigitChar[d] = c

DigitValue(c) == (CHOOSE d \in 1 .. 10 : DigitChar[d] = c) - 1

RECURSIVE DigitsToInt(_)
DigitsToInt(cs) ==
  IF cs = <<>> THEN 0
  ELSE DigitsToInt(SubSeq(cs, 1, Len(cs) - 1)) * 10 + DigitValue(cs[Len(cs)])

IndexOf(cs, c) ==
  IF \E i \in 1 .. Len(cs) : cs[i] = c
    THEN CHOOSE i \in 1 .. Len(cs) : cs[i] = c /\ \A j \in 1 .. (i - 1) : cs[j] # c
    ELSE 0

\* the Number a decimal literal denotes (NaN when it is no literal)
StringToNumber(cs) ==
  IF cs = <<"N", "a", "N">> THEN NaN
  ELSE IF cs = <<"I", "n", "f", "i", "n", "i", "t", "y">> THEN PosInf
  ELSE IF cs = <<"-", "I", "n", "f", "i", "n", "i", "t", "y">> THEN NegInf
  ELSE
    LET neg  == cs # <<>> /\ cs[1] = "-"
        body == IF neg THEN Tail(cs) ELSE cs
        dot  == IndexOf(body, ".")
        ip   == IF dot = 0 THEN body ELSE SubSeq(body, 1, dot - 1)
        fp   == IF dot = 0 THEN <<>> ELSE SubSeq(body, dot + 1, Len(body))
        ok   == /\ ip # <<>>
                /\ dot # 0 => fp # <<>>
                /\ \A i \in 1 .. Len(ip) : IsDigit(ip[i])
                /\ \A i \in 1 .. Len(fp) : IsDigit(fp[i])
        n    == DigitsToInt(ip \o fp) * Scale
    IN  IF ~ok THEN NaN
        ELSE RoundRat(IF neg THEN -n ELSE n, Pow(10, Len(fp)))

RECURSIVE Split(_, _)
Split(cs, sep) ==
  LET i == IndexOf(cs, sep)
  IN  IF i = 0 THEN <<cs>>
      ELSE <<SubSeq(cs, 1, i - 1)>> \o Split(SubSeq(cs, i + 1, Len(cs)), sep)

\* one "key":value member of a flat JSON object
JsonMember(m) ==
  LET q == IndexOf(Tail(m), "\"") + 1      \* the quote that closes the key
      v == SubSeq(m, q + 2, Len(m))
  IN  [key   |-> SubSeq(m, 2, q - 1),
       value |-> IF v = <<"n", "u", "l", "l">> THEN Null
                 ELSE IF v # <<>> /\ v[1] = "\""
                   THEN [k |-> "string", v |-> 0]
                 ELSE StringToNumber(v)]

\* JSON.parse of a flat object: the sequence of its members
JsonParse(cs) ==
  LET inner == SubSeq(cs, 2, Len(cs) - 1)
      ms    == IF inner = <<>> THEN <<>> ELSE Split(inner, ",")
  IN  [i \in 1 .. Len(ms) |-> JsonMember(ms[i])]

TotalAreaKey == <<"t", "o", "t", "a", "l", "A", "r", "e", "a">>

\* ============================================================== properties
Compliant == prog \in {"ocp", "srp"}

\* the latest call was made on the objects as they are now
Fresh(op) == last.op = op /\ ~changed

AreaOf(shape) == IF prog = "ocp" THEN OcpArea(shape) ELSE SrpArea(shape)
SumOf(arr)    == IF prog = "ocp" THEN OcpSum(arr) ELSE SrpSum(arr)

Areas(arr) == [i \in 1 .. Len(arr) |-> AreaOf(arr[i])]

AllFinite(as) == \A i \in 1 .. Len(as) : IsFinite(as[i])

\* the arithmetic sum of finite areas, in units
RECURSIVE ExactTotal(_)
ExactTotal(as) ==
  IF as = <<>> THEN 0
  ELSE as[Len(as)].v + ExactTotal(SubSeq(as, 1, Len(as) - 1))

RECURSIVE AbsTotal(_)
AbsTotal(as) ==
  IF as = <<>> THEN 0
  ELSE Abs(as[Len(as)].v) + AbsTotal(SubSeq(as, 1, Len(as) - 1))

\* every partial sum, taken in order, is a representable number
NoRounding(as) == \A j \in 1 .. Len(as) : IsRep(ExactTotal(SubSeq(as, 1, j)))

\* |x - y| is within c accumulated rounding errors of the n - 1 rounded
\* additions of a sum of the areas as: c * gamma(n-1) * sum |as[i]|,
\* gamma(j) = j*u / (1 - j*u), u = 2^-MantBits
WithinRounding(x, y, as, c) ==
  Abs(x - y) * (Pow(2, MantBits) - (Len(as) - 1)) <= c * (Len(as) - 1) * AbsTotal(as)

Perms(arr) ==
  { [i \in 1 .. Len(arr) |-> arr[f[i]]] : f \in Permutations(1 .. Len(arr)) }

Classes(arr) == { arr[i].cls : i \in 1 .. Len(arr) }

NonNeg(x) == (x.k = "num" /\ x.v >= 0) \/ x = PosInf

\* every dimension of the shape is a finite number >= 0
DimsNonNeg(shape) ==
  CASE shape.cls = "Square" ->
         IF prog = "ocp" THEN NonNeg(shape.width) /\ IsFinite(shape.width)
                         ELSE NonNeg(shape.length) /\ IsFinite(shape.length)
    [] shape.cls = "Circle" -> NonNeg(shape.radius) /\ IsFinite(shape.radius)
    [] shape.cls = "Triangle" ->
         /\ NonNeg(shape.base) /\ IsFinite(shape.base)
         /\ NonNeg(shape.height) /\ IsFinite(shape.height)

AllDimsNonNeg(arr) == \A i \in 1 .. Len(arr) : DimsNonNeg(arr[i])

\* ---- C1
\* C1 (as stated): sum() of a compliant AreaCalculator returns exactly the
\* arithmetic sum of area() over the elements of shapes.
C1_SumIsExactTotal ==
  (Fresh("sum") /\ Compliant /\ AllFinite(Areas(shapes)))
    => last.ret = Num(ExactTotal(Areas(shapes)))

\* C1 (amended): sum() returns the areas added in iteration order from 0 with
\* floating-point addition: 0 for the empty array, exactly the arithmetic sum
\* when every partial sum is representable, and otherwise a finite result is
\* within the accumulated rounding error of the n-1 additions of it.
C1_SumIsRoundedTotal ==
  (Fresh("sum") /\ Compliant) =>
    LET as == Areas(shapes)
    IN  /\ shapes = <<>> => last.ret = Zero
        /\ (AllFinite(as) /\ NoRounding(as)) => last.ret = Num(ExactTotal(as))
        /\ (AllFinite(as) /\ IsFinite(last.ret))
             => WithinRounding(last.ret.v, ExactTotal(as), as, 1)

C1_Witness ==
  /\ Fresh("sum") /\ prog = "ocp" /\ Len(shapes) = 3
  /\ Classes(shapes) = {"Square", "Circle", "Triangle"}
  /\ AllFinite(Areas(shapes)) /\ NoRounding(Areas(shapes))
  /\ \A i \in 1 .. 3 : Areas(shapes)[i].v > 0

\* ---- C2
\* C2: for non-negative dimensions area() is the closed form of the class,
\* evaluated left to right in floating point: Square w*w, Circle PI*r*r,
\* Triangle 0.5*b*h; w*w is the exact square rounded once, and 0.5*b*h is the
\* exact b*h/2 rounded once whenever halving b is exact.
C2_AreaIsClosedForm ==
  (Fresh("area") /\ Compliant /\ DimsNonNeg(shapes[last.idx])) =>
    LET shape == shapes[last.idx]
    IN  CASE shape.cls = "Square" ->
               LET w == IF prog = "ocp" THEN shape.width ELSE shape.length
               IN  last.ret = RoundRat(w.v * w.v, Scale)
          [] shape.cls = "Circle" ->
               last.ret = FMul(FMul(PI, shape.radius), shape.radius)
          [] shape.cls = "Triangle" ->
               /\ last.ret = FMul(FMul(Half, shape.base), shape.height)
               /\ shape.base.v % 2 = 0
                    => last.ret = RoundRat(shape.base.v * shape.height.v, 2 * Scale)

C2_Witness ==
  /\ Fresh("area") /\ prog = "ocp"
  /\ shapes[last.idx].cls = "Triangle"
  /\ DimsNonNeg(shapes[last.idx])
  /\ last.ret.v > 0

\* ---- C3
\* C3 (as stated): sum() over every permutation of shapes equals sum() over
\* shapes.
C3_SumIsOrderInvariant ==
  (Fresh("sum") /\ Compliant) => \A p \in Perms(shapes) : SumOf(p) = last.ret

\* C3 (amended): sum() over a permutation equals sum() over shapes up to
\* floating-point rounding: the two are equal when no addition rounds in
\* either order, and two finite sums differ by at most the accumulated
\* rounding error of both.
C3_SumIsOrderInvariantUpToRounding ==
  (Fresh("sum") /\ Compliant) =>
    \A p \in Perms(shapes) :
      LET as == Areas(shapes)
          bs == Areas(p)
      IN  /\ (AllFinite(as) /\ NoRounding(as) /\ NoRounding(bs)) => SumOf(p) = last.ret
          /\ (AllFinite(as) /\ IsFinite(last.ret) /\ IsFinite(SumOf(p)))
               => WithinRounding(SumOf(p).v, last.ret.v, as, 2)

C3_Witness ==
  /\ Fresh("sum") /\ Compliant /\ Len(shapes) = 3
  /\ \E p \in Perms(shapes) :
       IsFinite(last.ret) /\ IsFinite(SumOf(p)) /\ SumOf(p) # last.ret

\* ---- C4
\* C4 (as stated): toJson() is the serialization of a record with the one key
\* totalArea whose value is the number sum() returns.
C4_ToJsonValueIsSum ==
  Fresh("toJson") =>
    JsonParse(last.ret) = <<[key |-> TotalAreaKey, value |-> SrpSum(shapes)]>>

\* C4 (amended): toJson() is the serialization of a record with the one key
\* totalArea whose value is the number sum() returns when that is finite, and
\* null when sum() is NaN, Infinity or -Infinity.
C4_ToJsonValueIsSumOrNull ==
  Fresh("toJson") =>
    LET S == SrpSum(shapes)
    IN  JsonParse(last.ret) =
          <<[key |-> TotalAreaKey, value |-> IF IsFinite(S) THEN S ELSE Null]>>

C4_Witness ==
  /\ Fresh("toJson") /\ Len(shapes) >= 2
  /\ Classes(shapes) = {"Square", "Circle"}
  /\ IsFinite(SrpSum(shapes))
  /\ IndexOf(last.ret, ".") # 0

\* ---- C5
\* C5: toText() is the prefix "Sum of the areas of provided shapes: " followed
\* by the decimal string of sum(), a string that denotes that number; for the
\* empty array it ends in "0"; output() of the SRP-violating calculator gives
\* the same string for the same shapes.
C5_ToTextIsTemplate ==
  /\ Fresh("toText") =>
       LET S    == SrpSum(shapes)
           tail == SubSeq(last.ret, Len(Prefix) + 1, Len(last.ret))
       IN  /\ SubSeq(last.ret, 1, Len(Prefix)) = Prefix
           /\ tail = NumberToString(S)
           /\ StringToNumber(tail) = S
           /\ shapes = <<>> => last.ret = Prefix \o <<"0">>
  /\ Fresh("output") =>
       /\ last.ret = Prefix \o NumberToString(SrpSum(shapes))
       /\ shapes = <<>> => last.ret = Prefix \o <<"0">>

C5_Witness ==
  /\ Fresh("toText") /\ Len(shapes) = 3
  /\ Classes(shapes) = {"Square", "Circle"}
  /\ IsFinite(SrpSum(shapes))
  /\ Len(last.ret) > Len(Prefix) + 1

\* ---- C6
\* C6 (as stated): area() of every shape and sum() of every array are
\* non-negative, whatever the dimensions.
C6_AreaAndSumNonNegative ==
  /\ (Fresh("area") /\ Compliant) => NonNeg(last.ret)
  /\ (Fresh("sum") /\ Compliant) => NonNeg(last.ret)

\* C6 (amended): area() of a shape whose dimensions are finite and
\* non-negative, and sum() of an array of such shapes, are non-negative
\* (possibly Infinity).
C6_NonNegativeForNonNegativeDims ==
  /\ (Fresh("area") /\ Compliant /\ DimsNonNeg(shapes[last.idx])) => NonNeg(last.ret)
  /\ (Fresh("sum") /\ Compliant /\ AllDimsNonNeg(shapes)) => NonNeg(last.ret)

C6_Witness ==
  /\ Fresh("sum") /\ prog = "ocp" /\ Len(shapes) = 3
  /\ "Triangle" \in Classes(shapes)
  /\ AllDimsNonNeg(shapes)
  /\ IsFinite(last.ret) /\ last.ret.v > 0

\* ---- C7
\* C7: a call to area(), sum(), toText(), toJson() or output() leaves the
\* shapes array, its elements and their attributes as they were.
C7_CallsLeaveDataUnchanged ==
  [][(~changed') => (shapes' = shapes /\ prog' = prog)]_vars

C7_Witness ==
  /\ prev.op = "toText" /\ Fresh("toJson")
  /\ Len(shapes) >= 2

\* ---- C8
\* C8: nothing is cached: sum(), toText() and toJson() report the sum of the
\* shapes as they are at the call, also when the array or a dimension was
\* changed since the previous call of the same method, and toText() and
\* toJson() called with no change in between report the same sum.
C8_NothingIsCached ==
  /\ Fresh("sum") => last.ret = CalculatorSum(shapes)
  /\ Fresh("toText") => last.ret = Prefix \o NumberToString(SrpSum(shapes))
  /\ Fresh("toJson") => last.ret = JsonStringify(SrpSum(shapes))
  /\ (~changed /\ {prev.op, last.op} = {"toText", "toJson"}) =>
       LET text == IF last.op = "toText" THEN last.ret ELSE prev.ret
           json == IF last.op = "toJson" THEN last.ret ELSE prev.ret
           S    == StringToNumber(SubSeq(text, Len(Prefix) + 1, Len(text)))
       IN  json = JsonStringify(S)

C8_Witness ==
  /\ last.again /\ Fresh("toText")
  /\ shapes # <<>>

\* ---- C9
\* C9: in the OCP-violating sum() an element that is neither a Square nor a
\* Circle leaves the running total unchanged: sum() is the sum of the areas
\* of the Squares and Circles only, and is always a number.
C9_OtherElementsAreSkipped ==
  (Fresh("sum") /\ prog = "ocpViolation") =>
    /\ last.ret = OcpViolationSum(SelectSeq(shapes, LAMBDA e : e.cls # "Other"))
    /\ last.ret.k \in {"num", "inf", "nan"}

\* ---- C10
ToSrp(arr) ==
  [i \in 1 .. Len(arr) |->
     IF arr[i].cls = "Circle" THEN SrpCircle(arr[i].radius.v)
     ELSE SrpSquare(IF prog \in {"ocp", "ocpViolation"}
                      THEN arr[i].width.v ELSE arr[i].length.v)]

ToOcp(arr) ==
  [i \in 1 .. Len(arr) |->
     IF arr[i].cls = "Circle" THEN OcpCircle(arr[i].radius.v)
     ELSE OcpSquare(IF prog \in {"ocp", "ocpViolation"}
                      THEN arr[i].width.v ELSE arr[i].length.v)]

\* C10: on arrays of Circles and Squares the instanceof loop of the
\* SRP-violating calculator, the instanceof reduce of the OCP-violating one
\* and the area()-delegating sums of the compliant ones return the same value.
C10_CalculatorsAgree ==
  (Fresh("sum") /\ Classes(shapes) \subseteq {"Circle", "Square"}) =>
    /\ last.ret = SrpViolationSum(ToSrp(shapes))
    /\ last.ret = OcpViolationSum(ToOcp(shapes))
    /\ last.ret = SrpSum(ToSrp(shapes))
    /\ last.ret = OcpSum(ToOcp(shapes))

C10_Witness ==
  /\ Fresh("sum") /\ prog = "ocpViolation" /\ Len(shapes) = 3
  /\ Classes(shapes) = {"Circle", "Square"}
  /\ IsFinite(last.ret)

====
